---- MODULE Spec2Model ----
(***************************************************************************)
(* RMM maturity dashboard: the scoring pipeline of src/src/scoring.py, the *)
(* data generator of src/src/generate_dummy_data.py and the callers that   *)
(* run them (src/app.py, src/pages).                                       *)
(*                                                                         *)
(* Number representation.  The code computes in binary floating point; the *)
(* model computes the same quantities exactly:                             *)
(*   - a rating read from a table (level, proficiency_level, ...) is an    *)
(*     integer, and NaN when the cell is empty;                            *)
(*   - a median, percentile, dispersion, penalty or index is an integer    *)
(*     number of QUARTERS (1.0 is 4, 0.5 is 2, 1.5 is 6, 5.0 is 20): the   *)
(*     linear interpolation of numpy.percentile at 25/50/75 on integers    *)
(*     only produces multiples of 0.25, and these are exact in floats;     *)
(*   - a weight is an integer number of TENTHS (0.8 is 8, 1.0 is 10);      *)
(*   - a quotient (mean, rate, weighted average) is a pair <<num, den>>    *)
(*     with den > 0, and <<0, 0>> is the NaN quotient.                     *)
(***************************************************************************)
EXTENDS Integers, Sequences, FiniteSets, TLC

VARIABLES
    pc,                \* where the run stands
    caller,            \* "app" (the dashboard page, which filters the score
                       \* table), "trends" (the Trends page) or "scoring"
                       \* (the functions of scoring.py applied to one
                       \* another's results)
    origin,            \* "generated" (generate_all_data wrote the tables) or "csv"
    factors_df,        \* the factor catalog, a sequence of rows
    loaded_df,         \* the response table as load_data returned it
    actions_df,        \* the action table as load_data returned it
    columns,           \* the optional columns the response table has
    responses_df,      \* the response table after validate_responses
    cycle_id,          \* the cycle requested from compute_factor_scores
    org_group_filter,  \* the org_group_filter requested from compute_factor_scores
    controls,          \* the sidebar: selected_area, show_evidence_only,
                       \* min_responses, max_dispersion
    factor_scores,     \* the table compute_factor_scores returned
    area_scores,       \* the table compute_area_scores returned
    overall_score,     \* the dict compute_overall_score returned
    gaps_df,           \* the table compute_gap_analysis returned
    participation,     \* the dict compute_participation_stats returned
    quadrant,          \* the label get_combined_maturity_quadrant returned
    trend_data,        \* the dict compute_trend_data returned
    rerun_scores       \* the table compute_factor_scores returns when the
                       \* page runs again on the same tables and sidebar

vars == <<pc, caller, origin, factors_df, loaded_df, actions_df, columns, responses_df,
          cycle_id, org_group_filter, controls, factor_scores, area_scores,
          overall_score, gaps_df, participation, quadrant, trend_data,
          rerun_scores>>

---------------------------------------------------------------------------
(* Bounds of the model *)

\* A loaded response table has at most this many rows.
MaxResponses == 3

\* The generator draws between MinRespondents and this many respondents per
\* factor and cycle (the code draws up to 7).
GenMaxRespondents == 3

---------------------------------------------------------------------------
(* Values *)

\* np.nan in a cell of integers or quarters.
NaN == -1

\* The NaN quotient.
NaNQ == <<0, 0>>

\* Python's None as the org_group_filter argument.
None == "None"

MinLevel == 1
MaxLevel == 5

\* np.random.randint(3, 8): the least number of respondents per factor.
MinRespondents == 3

IsNaNQ(q) == q[2] = 0

\* Exact comparison of two defined quotients.
EqQ(a, b) == a[1] * b[2] = b[1] * a[2]
LeqQ(a, b) == a[1] * b[2] <= b[1] * a[2]
LtQ(a, b) == a[1] * b[2] < b[1] * a[2]

Min2(a, b) == IF a <= b THEN a ELSE b
Max2(a, b) == IF a >= b THEN a ELSE b

\* pandas Series.between(lo, hi): inclusive on both sides, False on NaN.
Between(x, lo, hi) == x # NaN /\ lo <= x /\ x <= hi

RECURSIVE SumSeq(_)
SumSeq(s) == IF s = <<>> THEN 0 ELSE Head(s) + SumSeq(Tail(s))

\* The values of a column, in row order.
Column(df, name) == [i \in 1..Len(df) |-> df[i][name]]

RECURSIVE Insert(_, _)
Insert(x, s) ==
    IF s = <<>> THEN <<x>>
    ELSE IF x <= Head(s) THEN <<x>> \o s
    ELSE <<Head(s)>> \o Insert(x, Tail(s))

\* The sort numpy applies before it takes a median or a percentile.
RECURSIVE Sorted(_)
Sorted(s) == IF s = <<>> THEN <<>> ELSE Insert(Head(s), Sorted(Tail(s)))

\* np.median of a non-empty sequence of integers, in quarters: the middle
\* element, or the mean of the two middle elements.
Median(a) ==
    LET s == Sorted(a)
        n == Len(s)
    IN  IF n % 2 = 1 THEN 4 * s[(n + 1) \div 2]
        ELSE 2 * (s[n \div 2] + s[n \div 2 + 1])

\* Percentile without interpolation: the neighbour below the virtual index.
Percentile_lower(a, q) ==
    LET s   == Sorted(a)
        pos == (Len(s) - 1) * q
    IN  4 * s[pos \div 100 + 1]

\* np.percentile(a, q) with the default linear interpolation, in quarters,
\* for q in {25, 75}: the virtual index is (n-1)*q/100, and the value is
\* interpolated between its two neighbours.
Percentile(a, q) ==
    LET s    == Sorted(a)
        n    == Len(s)
        pos  == (n - 1) * q
        lo   == pos \div 100
        frac == pos % 100
    IN  IF frac = 0 THEN 4 * s[lo + 1]
        ELSE 4 * s[lo + 1] + ((s[lo + 2] - s[lo + 1]) * frac) \div 25

\* The distinct values of a sequence in order of first appearance
\* (pandas Series.unique).
RECURSIVE Unique(_)
Unique(s) ==
    IF s = <<>> THEN <<>>
    ELSE LET init == Unique(SubSeq(s, 1, Len(s) - 1))
             x    == s[Len(s)]
         IN  IF \E i \in 1..Len(init) : init[i] = x THEN init ELSE Append(init, x)

---------------------------------------------------------------------------
(* validate_responses *)

OptionalColumns == {"proficiency_level", "coverage_level", "confidence"}

\* The rows whose factor_id is in the catalog and whose level is between 1
\* and 5; when the table has a proficiency_level (coverage_level) column,
\* the rows whose value in it is between 1 and 5 as well.
validate_responses(df, cols, factors) ==
    LET valid_factors == {factors[i].factor_id : i \in 1..Len(factors)}
        s1 == SelectSeq(df, LAMBDA r : r.factor_id \in valid_factors)
        s2 == SelectSeq(s1, LAMBDA r : Between(r.level, MinLevel, MaxLevel))
        s3 == IF "proficiency_level" \in cols
              THEN SelectSeq(s2, LAMBDA r : Between(r.proficiency_level, MinLevel, MaxLevel))
              ELSE s2
    IN  IF "coverage_level" \in cols
        THEN SelectSeq(s3, LAMBDA r : Between(r.coverage_level, MinLevel, MaxLevel))
        ELSE s3

---------------------------------------------------------------------------
(* compute_factor_scores *)

\* FilterGiven taking 'All' for the name of a group.
FilterGiven_all_is_a_group(flt) == flt # None /\ flt # ""

\* `if org_group_filter and org_group_filter != 'All'`: None and the empty
\* string are falsy, 'All' is the sentinel for no filter.
FilterGiven(flt) == flt # None /\ flt # "" /\ flt # "All"

\* The rows of the requested cycle and, when a filter is given, of the group.
CycleData(df, cyc, flt) ==
    LET in_cycle == SelectSeq(df, LAMBDA r : r.cycle_id = cyc)
    IN  IF FilterGiven(flt)
        THEN SelectSeq(in_cycle, LAMBDA r : r.org_group = flt)
        ELSE in_cycle

\* factors_df[factors_df['factor_id'] == factor_id].iloc[0]
FactorInfo(factors, factor_id) ==
    LET first == CHOOSE i \in 1..Len(factors) :
                    /\ factors[i].factor_id = factor_id
                    /\ \A j \in 1..(i - 1) : factors[j].factor_id # factor_id
    IN  factors[first]

\* ZeroResponseRow with a dispersion of 0.0 in place of NaN.
ZeroResponseRow_zero_dispersion(factor_id) ==
    [factor_id          |-> factor_id,
     median_level       |-> NaN,
     mean_level         |-> NaNQ,
     proficiency_median |-> NaN,
     coverage_median    |-> NaN,
     n_responses        |-> 0,
     dispersion         |-> 0,
     confidence_avg     |-> NaNQ,
     evidence_rate      |-> <<0, 1>>,
     index_raw          |-> 4,
     quality_penalty    |-> 0,
     index_adjusted     |-> 4]

\* ZeroResponseRow with a mean_level of 0.0 in place of NaN.
ZeroResponseRow_zero_mean(factor_id) ==
    [factor_id          |-> factor_id,
     median_level       |-> NaN,
     mean_level         |-> <<0, 1>>,
     proficiency_median |-> NaN,
     coverage_median    |-> NaN,
     n_responses        |-> 0,
     dispersion         |-> NaN,
     confidence_avg     |-> NaNQ,
     evidence_rate      |-> <<0, 1>>,
     index_raw          |-> 4,
     quality_penalty    |-> 0,
     index_adjusted     |-> 4]

\* The row appended for a factor without any selected response.
ZeroResponseRow(factor_id) ==
    [factor_id          |-> factor_id,
     median_level       |-> NaN,
     mean_level         |-> NaNQ,
     proficiency_median |-> NaN,
     coverage_median    |-> NaN,
     n_responses        |-> 0,
     dispersion         |-> NaN,
     confidence_avg     |-> NaNQ,
     evidence_rate      |-> <<0, 1>>,
     index_raw          |-> 4,
     quality_penalty    |-> 0,
     index_adjusted     |-> 4]

\* QualityPenalty with `dispersion >= 1.5` in place of `dispersion > 1.5`.
QualityPenalty_dispersion_geq(n_responses, dispersion, evidence_required, evidence_rate) ==
      (IF n_responses < 3 THEN 2 ELSE 0)
    + (IF dispersion >= 6 THEN 2 ELSE 0)
    + (IF evidence_required /\ LtQ(evidence_rate, <<1, 2>>) THEN 2 ELSE 0)

\* The three additive penalties of 0.5, in quarters.
QualityPenalty(n_responses, dispersion, evidence_required, evidence_rate) ==
      (IF n_responses < 3 THEN 2 ELSE 0)
    + (IF dispersion > 6 THEN 2 ELSE 0)
    + (IF evidence_required /\ LtQ(evidence_rate, <<1, 2>>) THEN 2 ELSE 0)

\* IndexAdjusted without the floor of 1.0.
IndexAdjusted_no_floor(index_raw, quality_penalty) == index_raw - quality_penalty

\* max(1.0, index_raw - quality_penalty)
IndexAdjusted(index_raw, quality_penalty) == Max2(4, index_raw - quality_penalty)

\* pandas Series.mean(): the mean of the values that are not NaN.
MeanSkipNaN(s) ==
    LET kept == SelectSeq(s, LAMBDA x : x # NaN)
    IN  IF kept = <<>> THEN NaNQ ELSE <<SumSeq(kept), Len(kept)>>

\* ResponseRow falling back, for a dimension without a column, on the
\* median after the penalty.
ResponseRow_fallback_adjusted(factor_info, factor_responses, cols) ==
    LET levels       == Column(factor_responses, "level")
        median_level == Median(levels)
        n_responses  == Len(levels)
        dispersion   == Percentile(levels, 75) - Percentile(levels, 25)
        with_link    == SelectSeq(factor_responses, LAMBDA r : r.evidence_link)
        evidence_rate ==
            IF factor_info.evidence_required
            THEN <<Len(with_link), n_responses>>
            ELSE <<1, 1>>
        quality_penalty ==
            QualityPenalty(n_responses, dispersion, factor_info.evidence_required,
                           evidence_rate)
        index_adjusted == IndexAdjusted(median_level, quality_penalty)
    IN  [factor_id          |-> factor_info.factor_id,
         median_level       |-> median_level,
         mean_level         |-> <<SumSeq(levels), n_responses>>,
         proficiency_median |->
            IF "proficiency_level" \in cols
            THEN Median(Column(factor_responses, "proficiency_level"))
            ELSE index_adjusted,
         coverage_median    |->
            IF "coverage_level" \in cols
            THEN Median(Column(factor_responses, "coverage_level"))
            ELSE index_adjusted,
         n_responses        |-> n_responses,
         dispersion         |-> dispersion,
         confidence_avg     |->
            IF "confidence" \in cols
            THEN MeanSkipNaN(Column(factor_responses, "confidence"))
            ELSE <<7, 2>>,
         evidence_rate      |-> evidence_rate,
         index_raw          |-> median_level,
         quality_penalty    |-> quality_penalty,
         index_adjusted     |-> index_adjusted]

\* The row appended for a factor with at least one selected response.
ResponseRow(factor_info, factor_responses, cols) ==
    LET levels       == Column(factor_responses, "level")
        median_level == Median(levels)
        n_responses  == Len(levels)
        dispersion   == Percentile(levels, 75) - Percentile(levels, 25)
        proficiency_median ==
            IF "proficiency_level" \in cols
            THEN Median(Column(factor_responses, "proficiency_level"))
            ELSE median_level
        coverage_median ==
            IF "coverage_level" \in cols
            THEN Median(Column(factor_responses, "coverage_level"))
            ELSE median_level
        confidence_avg ==
            IF "confidence" \in cols
            THEN MeanSkipNaN(Column(factor_responses, "confidence"))
            ELSE <<7, 2>>
        with_link == SelectSeq(factor_responses, LAMBDA r : r.evidence_link)
        evidence_rate ==
            IF factor_info.evidence_required
            THEN <<Len(with_link), n_responses>>
            ELSE <<1, 1>>
        index_raw == median_level
        quality_penalty ==
            QualityPenalty(n_responses, dispersion, factor_info.evidence_required,
                           evidence_rate)
    IN  [factor_id          |-> factor_info.factor_id,
         median_level       |-> median_level,
         mean_level         |-> <<SumSeq(levels), n_responses>>,
         proficiency_median |-> proficiency_median,
         coverage_median    |-> coverage_median,
         n_responses        |-> n_responses,
         dispersion         |-> dispersion,
         confidence_avg     |-> confidence_avg,
         evidence_rate      |-> evidence_rate,
         index_raw          |-> index_raw,
         quality_penalty    |-> quality_penalty,
         index_adjusted     |-> IndexAdjusted(index_raw, quality_penalty)]

\* One pass of the loop over factors_df['factor_id'].
FactorScoreRow(factors, cycle_data, cols, factor_id) ==
    LET factor_info      == FactorInfo(factors, factor_id)
        factor_responses == SelectSeq(cycle_data, LAMBDA r : r.factor_id = factor_id)
    IN  IF Len(factor_responses) = 0
        THEN ZeroResponseRow(factor_id)
        ELSE ResponseRow(factor_info, factor_responses, cols)

\* scores_df.merge(factors_df, on='factor_id', how='left'): every score row
\* joined with every catalog row of the same factor_id, in the order of the
\* score rows; the catalog's columns are added to the score's.
RECURSIVE Merge(_, _)
Merge(scores, factors) ==
    IF scores = <<>> THEN <<>>
    ELSE LET row     == Head(scores)
             matches == SelectSeq(factors, LAMBDA f : f.factor_id = row.factor_id)
         IN  [k \in 1..Len(matches) |-> row @@ matches[k]] \o Merge(Tail(scores), factors)

\* compute_factor_scores with the loop skipping a factor without responses
\* before, instead of after, it appends the factor's row.
compute_factor_scores_skip_empty(df, cols, factors, cyc, flt) ==
    LET cycle_data == CycleData(df, cyc, flt)
        rows == [i \in 1..Len(factors) |->
                    FactorScoreRow(factors, cycle_data, cols, factors[i].factor_id)]
    IN  Merge(SelectSeq(rows, LAMBDA r : r.n_responses > 0), factors)

compute_factor_scores(df, cols, factors, cyc, flt) ==
    LET cycle_data == CycleData(df, cyc, flt)
        rows == [i \in 1..Len(factors) |->
                    FactorScoreRow(factors, cycle_data, cols, factors[i].factor_id)]
    IN  Merge(rows, factors)

---------------------------------------------------------------------------
(* compute_area_scores *)

\* Round as a truncation.
Round_truncating(q) == q[1] \div q[2]

\* Python's round() of the quotient q: to the nearest integer, a tie to the
\* even one.
Round(q) ==
    LET fl  == q[1] \div q[2]
        rem == q[1] % q[2]
    IN  IF 2 * rem < q[2] THEN fl
        ELSE IF 2 * rem > q[2] THEN fl + 1
        ELSE IF fl % 2 = 0 THEN fl ELSE fl + 1

\* AreaIndex as the plain mean of index_adjusted, the weights ignored.
AreaIndex_unweighted(af) ==
    LET total_weight == SumSeq(Column(af, "weight"))
    IN  IF total_weight > 0
        THEN <<SumSeq(Column(af, "index_adjusted")), 4 * Len(af)>>
        ELSE <<1, 1>>

\* AreaIndex with the weighted sum divided by the number of factors in
\* place of the total weight.
AreaIndex_divided_by_count(af) ==
    LET total_weight == SumSeq(Column(af, "weight"))
        weighted == SumSeq([i \in 1..Len(af) |-> af[i].index_adjusted * af[i].weight])
    IN  IF total_weight > 0 THEN <<weighted, 4 * 10 * Len(af)>> ELSE <<1, 1>>

\* The weighted mean of index_adjusted over the rows of one area, or 1.0
\* unless the total weight is positive.
AreaIndex(af) ==
    LET total_weight == SumSeq(Column(af, "weight"))
        weighted == SumSeq([i \in 1..Len(af) |-> af[i].index_adjusted * af[i].weight])
    IN  IF total_weight > 0 THEN <<weighted, 4 * total_weight>> ELSE <<1, 1>>

\* MeanQuarters with a NaN making the mean NaN.
MeanQuarters_nan_propagating(s) ==
    IF \E i \in 1..Len(s) : s[i] = NaN THEN NaNQ
    ELSE IF s = <<>> THEN NaNQ ELSE <<SumSeq(s), 4 * Len(s)>>

\* The mean of a column of quarters, skipping NaN, as a quotient of levels.
MeanQuarters(s) ==
    LET m == MeanSkipNaN(s)
    IN  IF IsNaNQ(m) THEN NaNQ ELSE <<m[1], 4 * m[2]>>

AreaScoreRow(scores, area) ==
    LET af         == SelectSeq(scores, LAMBDA r : r.area = area)
        area_index == AreaIndex(af)
    IN  [area            |-> area,
         area_index      |-> area_index,
         area_level      |-> Min2(5, Max2(1, Round(area_index))),
         n_factors       |-> Len(af),
         avg_responses   |-> <<SumSeq(Column(af, "n_responses")), Len(af)>>,
         avg_proficiency |-> MeanQuarters(Column(af, "proficiency_median")),
         avg_coverage    |-> MeanQuarters(Column(af, "coverage_median"))]

compute_area_scores(scores) ==
    LET areas == Unique(Column(scores, "area"))
    IN  [k \in 1..Len(areas) |-> AreaScoreRow(scores, areas[k])]

---------------------------------------------------------------------------
(* Lists *)

\* The concatenation of a list of lists.
RECURSIVE Flatten(_)
Flatten(ss) == IF ss = <<>> THEN <<>> ELSE Head(ss) \o Flatten(Tail(ss))

---------------------------------------------------------------------------
(* Quotients *)

RECURSIVE GCD(_, _)
GCD(a, b) == IF b = 0 THEN a ELSE GCD(b, a % b)

\* The quotient q in lowest terms.
Reduce(q) ==
    IF IsNaNQ(q) THEN NaNQ
    ELSE LET g == GCD(q[1], q[2]) IN <<q[1] \div g, q[2] \div g>>

AddQ(a, b) == Reduce(<<a[1] * b[2] + b[1] * a[2], a[2] * b[2]>>)

MulQ(a, b) == Reduce(<<a[1] * b[1], a[2] * b[2]>>)

RECURSIVE SumQ(_)
SumQ(s) == IF s = <<>> THEN <<0, 1>> ELSE AddQ(Head(s), SumQ(Tail(s)))

\* pandas Series.mean() of a column of quotients: the mean of the values
\* that are not NaN, and NaN when there is none.
MeanQ(s) ==
    LET kept == SelectSeq(s, LAMBDA q : ~IsNaNQ(q))
    IN  IF kept = <<>> THEN NaNQ
        ELSE Reduce(<<SumQ(kept)[1], SumQ(kept)[2] * Len(kept)>>)

\* The float comparison q >= n, False when q is NaN.
GeqQ(q, n) == ~IsNaNQ(q) /\ q[1] >= n * q[2]

---------------------------------------------------------------------------
(* compute_overall_score *)

\* compute_overall_score weighting every area by its number of factors.
compute_overall_score_by_factor_count(scores) ==
    LET weighted == [i \in 1..Len(scores) |->
                        <<scores[i].area_index[1] * scores[i].n_factors,
                          scores[i].area_index[2]>>]
        overall_index ==
            Reduce(<<SumQ(weighted)[1],
                     SumQ(weighted)[2] * SumSeq(Column(scores, "n_factors"))>>)
    IN  [overall_index       |-> overall_index,
         overall_level       |-> Min2(5, Max2(1, Round(overall_index))),
         overall_proficiency |-> MeanQ(Column(scores, "avg_proficiency")),
         overall_coverage    |-> MeanQ(Column(scores, "avg_coverage"))]

\* The equal-weighted average of the area indices, on a table with at least
\* one area row.
compute_overall_score(scores) ==
    LET overall_index == MeanQ(Column(scores, "area_index"))
    IN  [overall_index       |-> overall_index,
         overall_level       |-> Min2(5, Max2(1, Round(overall_index))),
         overall_proficiency |-> MeanQ(Column(scores, "avg_proficiency")),
         overall_coverage    |-> MeanQ(Column(scores, "avg_coverage"))]

---------------------------------------------------------------------------
(* compute_gap_analysis *)

\* CurrentLevel read from index_adjusted, the index after the penalty.
CurrentLevel_adjusted(factor) ==
    IF factor.median_level = NaN THEN 4 ELSE factor.index_adjusted

\* current_level: the factor's median_level, or 1.0 when it is NaN.
CurrentLevel(factor) ==
    IF factor.median_level = NaN THEN 4 ELSE factor.median_level

\* max(0, target_level - current_level), in quarters.
GapLevels(factor) == Max2(0, 4 * factor.target_level - CurrentLevel(factor))

\* The rows of actions_df selected for a factor: those of its factor_id
\* whose if_level_leq is at least the current level.
FactorActions(factor, actions) ==
    SelectSeq(actions, LAMBDA a :
        /\ a.factor_id = factor.factor_id
        /\ a.if_level_leq # NaN
        /\ 4 * a.if_level_leq >= CurrentLevel(factor))

\* QualityFactor without q_evidence.
QualityFactor_without_evidence(factor) ==
    IF factor.n_responses > 0
    THEN LET q_response   == <<Min2(5, factor.n_responses), 5>>
             q_dispersion == IF factor.dispersion # NaN
                             THEN <<Max2(0, 8 - factor.dispersion), 8>>
                             ELSE <<1, 2>>
         IN  MulQ(q_response, q_dispersion)
    ELSE <<1, 10>>

\* q_response * q_dispersion * q_evidence, or the flat 0.1 of a factor
\* without responses.
QualityFactor(factor) ==
    IF factor.n_responses > 0
    THEN LET q_response   == <<Min2(5, factor.n_responses), 5>>
             q_dispersion == IF factor.dispersion # NaN
                             THEN <<Max2(0, 8 - factor.dispersion), 8>>
                             ELSE <<1, 2>>
             q_evidence   == factor.evidence_rate
         IN  MulQ(MulQ(q_response, q_dispersion), q_evidence)
    ELSE <<1, 10>>

\* PriorityScore without the quality adjustment.
PriorityScore_without_quality(factor, action) ==
    Reduce(<<action.impact * GapLevels(factor) * factor.weight,
             4 * 10 * Max2(action.effort, 1)>>)

\* (impact * gap_levels * weight) / max(effort, 1), times the quality factor.
PriorityScore(factor, action) ==
    MulQ(<<action.impact * GapLevels(factor) * factor.weight,
           4 * 10 * Max2(action.effort, 1)>>,
         QualityFactor(factor))

\* The record appended for one factor and one of its selected actions.
GapRow(factor, action) ==
    [factor_id         |-> factor.factor_id,
     area              |-> factor.area,
     current_level     |-> CurrentLevel(factor),
     target_level      |-> factor.target_level,
     gap_levels        |-> GapLevels(factor),
     proficiency_level |-> factor.proficiency_median,
     coverage_level    |-> factor.coverage_median,
     action_id         |-> action.action_id,
     transition        |-> <<action.if_level_leq, action.if_level_leq + 1>>,
     impact            |-> action.impact,
     effort            |-> action.effort,
     priority_score    |-> PriorityScore(factor, action)]

\* FactorGaps without the `continue` of a factor at or above its target.
FactorGaps_no_skip(factor, actions) ==
    LET factor_actions == FactorActions(factor, actions)
    IN  [k \in 1..Len(factor_actions) |-> GapRow(factor, factor_actions[k])]

\* FactorGaps selecting the actions with if_level_leq > current_level.
FactorGaps_threshold_strict(factor, actions) ==
    IF GapLevels(factor) <= 0 THEN <<>>
    ELSE LET factor_actions ==
                 SelectSeq(FactorActions(factor, actions), LAMBDA a :
                     4 * a.if_level_leq > CurrentLevel(factor))
         IN  [k \in 1..Len(factor_actions) |-> GapRow(factor, factor_actions[k])]

\* One pass of the loop over the factor score rows.
FactorGaps(factor, actions) ==
    IF GapLevels(factor) <= 0 THEN <<>>
    ELSE LET factor_actions == FactorActions(factor, actions)
         IN  [k \in 1..Len(factor_actions) |-> GapRow(factor, factor_actions[k])]

\* The list `gaps` when the loops end, before it is sorted.
GapRows(scores, actions) ==
    Flatten([i \in 1..Len(scores) |-> FactorGaps(scores[i], actions)])

\* The row inserted into rows that are in non-increasing priority_score,
\* behind the rows of an equal score.
RECURSIVE InsertByPriority(_, _)
InsertByPriority(row, sorted) ==
    IF sorted = <<>> THEN <<row>>
    ELSE IF LtQ(Head(sorted).priority_score, row.priority_score)
         THEN <<row>> \o sorted
         ELSE <<Head(sorted)>> \o InsertByPriority(row, Tail(sorted))

\* sort_values('priority_score', ascending=False) on a table of fewer than
\* 17 rows, where numpy's sort is an insertion sort: the rows of an equal
\* score keep their order.
RECURSIVE SortByPriority(_)
SortByPriority(rows) ==
    IF rows = <<>> THEN <<>>
    ELSE InsertByPriority(rows[Len(rows)], SortByPriority(SubSeq(rows, 1, Len(rows) - 1)))

\* compute_gap_analysis returning the rows in the order the loops built them.
compute_gap_analysis_unsorted(scores, actions) == GapRows(scores, actions)

compute_gap_analysis(scores, actions) ==
    LET gaps == GapRows(scores, actions)
    IN  IF Len(gaps) > 0 THEN SortByPriority(gaps) ELSE gaps

---------------------------------------------------------------------------
(* compute_participation_stats *)

\* Series.nunique()
NUnique(s) == Cardinality({s[i] : i \in 1..Len(s)})

\* compute_participation_stats counting the response rows in place of the
\* distinct respondents.
compute_participation_stats_rows(df, cyc) ==
    LET cycle_data == SelectSeq(df, LAMBDA r : r.cycle_id = cyc)
        groups     == {cycle_data[i].org_group : i \in 1..Len(cycle_data)}
    IN  [total_respondents |-> Len(cycle_data),
         by_group |->
            [g \in groups |->
                LET rows == SelectSeq(cycle_data, LAMBDA r : r.org_group = g)
                IN  [unique_respondents |-> NUnique(Column(rows, "respondent_id")),
                     total_responses    |-> Len(rows)]]]

compute_participation_stats(df, cyc) ==
    LET cycle_data == SelectSeq(df, LAMBDA r : r.cycle_id = cyc)
        groups     == {cycle_data[i].org_group : i \in 1..Len(cycle_data)}
    IN  [total_respondents |-> NUnique(Column(cycle_data, "respondent_id")),
         by_group |->
            [g \in groups |->
                LET rows == SelectSeq(cycle_data, LAMBDA r : r.org_group = g)
                IN  [unique_respondents |-> NUnique(Column(rows, "respondent_id")),
                     total_responses    |-> Len(rows)]]]

---------------------------------------------------------------------------
(* get_combined_maturity_quadrant *)

\* The classifier with `> 3` in place of `>= 3` on both axes.
get_combined_maturity_quadrant_strict(proficiency, coverage) ==
    LET p_high == GeqQ(proficiency, 3) /\ ~EqQ(proficiency, <<3, 1>>)
        c_high == GeqQ(coverage, 3) /\ ~EqQ(coverage, <<3, 1>>)
    IN  IF p_high /\ c_high
        THEN "Institutional maturity and stable programme"
        ELSE IF p_high /\ ~c_high
        THEN "Strong practices not yet scaled across the organisation"
        ELSE IF ~p_high /\ c_high
        THEN "Widespread implementation requiring quality improvement"
        ELSE "Early-stage capability requiring structural improvements"

get_combined_maturity_quadrant(proficiency, coverage) ==
    LET p_high == GeqQ(proficiency, 3)
        c_high == GeqQ(coverage, 3)
    IN  IF p_high /\ c_high
        THEN "Institutional maturity and stable programme"
        ELSE IF p_high /\ ~c_high
        THEN "Strong practices not yet scaled across the organisation"
        ELSE IF ~p_high /\ c_high
        THEN "Widespread implementation requiring quality improvement"
        ELSE "Early-stage capability requiring structural improvements"

---------------------------------------------------------------------------
(* compute_trend_data *)

\* factor_scores.head(10): the number of factor rows a cycle contributes.
TrendFactors == 10

\* FirstRows keeping every row.
FirstRows_all(df, n) == df

\* DataFrame.head(n)
FirstRows(df, n) == SubSeq(df, 1, Min2(n, Len(df)))

\* The rows one cycle appends to the three lists.
TrendRows(df, cols, factors, cycle) ==
    LET scores  == compute_factor_scores(df, cols, factors, cycle, None)
        areas   == compute_area_scores(scores)
        overall == compute_overall_score(areas)
        shown   == FirstRows(scores, TrendFactors)
    IN  [overall |->
            <<[cycle_id            |-> cycle,
               overall_index       |-> overall.overall_index,
               overall_level       |-> overall.overall_level,
               overall_proficiency |-> overall.overall_proficiency,
               overall_coverage    |-> overall.overall_coverage]>>,
         by_area |->
            [k \in 1..Len(areas) |->
                [cycle_id        |-> cycle,
                 area            |-> areas[k].area,
                 area_index      |-> areas[k].area_index,
                 area_level      |-> areas[k].area_level,
                 avg_proficiency |-> areas[k].avg_proficiency,
                 avg_coverage    |-> areas[k].avg_coverage]],
         by_factor |->
            [k \in 1..Len(shown) |->
                [cycle_id       |-> cycle,
                 factor_id      |-> shown[k].factor_id,
                 index_adjusted |-> shown[k].index_adjusted]]]

\* compute_trend_data with the scores of the first cycle carried into
\* every later cycle's overall row.
compute_trend_data_carry_forward(df, cols, factors) ==
    LET cycles == Unique(Column(df, "cycle_id"))
        rows   == [c \in 1..Len(cycles) |-> TrendRows(df, cols, factors, cycles[c])]
    IN  [overall   |-> Flatten([c \in 1..Len(cycles) |->
                          <<[rows[c].overall[1] EXCEPT
                                !.overall_index = rows[1].overall[1].overall_index]>>]),
         by_area   |-> Flatten([c \in 1..Len(cycles) |-> rows[c].by_area]),
         by_factor |-> Flatten([c \in 1..Len(cycles) |-> rows[c].by_factor])]

\* The loop over the cycles in order of first appearance, on a catalog
\* with at least one factor.
compute_trend_data(df, cols, factors) ==
    LET cycles == Unique(Column(df, "cycle_id"))
        rows   == [c \in 1..Len(cycles) |-> TrendRows(df, cols, factors, cycles[c])]
    IN  [overall   |-> Flatten([c \in 1..Len(cycles) |-> rows[c].overall]),
         by_area   |-> Flatten([c \in 1..Len(cycles) |-> rows[c].by_area]),
         by_factor |-> Flatten([c \in 1..Len(cycles) |-> rows[c].by_factor])]

---------------------------------------------------------------------------
(* Rows of the input tables *)

AreaOf(factor_id) ==
    CASE factor_id \in {"PM_01", "PM_02"} -> "Project Management"
      [] factor_id \in {"EIM_01"}         -> "Evaluation & Impact Measurement"
      [] OTHER                             -> "Invoicing Process"

\* A row of factors.csv.
Factor(factor_id, weight, target_level, evidence_required) ==
    [factor_id         |-> factor_id,
     area              |-> AreaOf(factor_id),
     weight            |-> weight,
     target_level      |-> target_level,
     evidence_required |-> evidence_required]

\* A row of responses.csv; evidence_link is TRUE when the cell holds a link
\* (notna()), and a rating is NaN when its cell is empty.
Response(cyc, respondent_id, org_group, factor_id, level, proficiency_level, coverage_level, confidence, evidence_link) ==
    [cycle_id          |-> cyc,
     respondent_id     |-> respondent_id,
     org_group         |-> org_group,
     factor_id         |-> factor_id,
     level             |-> level,
     proficiency_level |-> proficiency_level,
     coverage_level    |-> coverage_level,
     confidence        |-> confidence,
     evidence_link     |-> evidence_link]

\* A row of actions.csv.
Action(action_id, factor_id, if_level_leq, impact, effort) ==
    [action_id    |-> action_id,
     factor_id    |-> factor_id,
     if_level_leq |-> if_level_leq,
     impact       |-> impact,
     effort       |-> effort]

\* A table that has no column `name` has no value in it in any row.
WithColumns(df, cols) ==
    [i \in 1..Len(df) |->
        [name \in DOMAIN df[i] |->
            IF name \in OptionalColumns \ cols THEN NaN ELSE df[i][name]]]

\* The tables of at most n rows drawn from a set of rows.
Tables(rows, n) == UNION {[1..k -> rows] : k \in 0..n}

---------------------------------------------------------------------------
(* generate_dummy_data *)

\* The draws of np.random.normal for one rating, in tenths of a level.
GenNoise == {-6, 12}

\* The draws of (base_prof, base_cov) for one factor and cycle.
GenBases == {<<3, 3>>, <<1, 5>>}

\* The org_groups a generated respondent is drawn from.
GenGroups == {"Admin"}

\* range(num_cycles): the generated cycles.
GenCycles == <<0>>

\* The catalogs generate_factors may draw: weight from {1.0, 1.2, 0.8},
\* target_level from {3, 4}, evidence_required from {0, 1}.
GenCatalogs ==
    {<<Factor("PM_01", 10, 3, TRUE)>>,
     <<Factor("PM_01", 12, 4, FALSE)>>,
     <<Factor("PM_01", 8, 3, TRUE)>>}

\* The random draws of one respondent.
GenDraws ==
    [noise_p : GenNoise, noise_c : GenNoise, has_evidence : BOOLEAN,
     org_group : GenGroups]

\* The random draws of one factor in one cycle: the base levels and one draw
\* per respondent, np.random.randint(3, 8) of them.
GenFactorDraws ==
    [base : GenBases,
     rows : UNION {[1..n -> GenDraws] : n \in MinRespondents..GenMaxRespondents}]

Clip(x, lo, hi) == Min2(hi, Max2(lo, x))

\* int(np.clip(base + noise, 1, 5)), base and noise in tenths.
DrawLevel(base, noise) == Clip(base + noise, 10 * MinLevel, 10 * MaxLevel) \div 10

CycleName(cycle) == IF cycle > 0 THEN "cycle_1" ELSE "baseline"

\* GenResponse with the proficiency written to level in place of the minimum.
GenResponse_level_is_proficiency(cycle, factor_id, base, resp_idx, draw) ==
    LET base_prof   == Min2(50, 10 * base[1] + 3 * cycle)
        base_cov    == Min2(50, 10 * base[2] + 2 * cycle)
        proficiency == DrawLevel(base_prof, draw.noise_p)
        coverage    == DrawLevel(base_cov, draw.noise_c)
    IN  Response(CycleName(cycle), <<resp_idx, draw.org_group>>, draw.org_group,
                 factor_id, proficiency, proficiency, coverage, 4, draw.has_evidence)

\* The record appended for one respondent: level is the combined maturity,
\* the minimum of the two dimensions.
GenResponse(cycle, factor_id, base, resp_idx, draw) ==
    LET base_prof   == Min2(50, 10 * base[1] + 3 * cycle)
        base_cov    == Min2(50, 10 * base[2] + 2 * cycle)
        proficiency == DrawLevel(base_prof, draw.noise_p)
        coverage    == DrawLevel(base_cov, draw.noise_c)
        combined    == Min2(proficiency, coverage)
    IN  Response(CycleName(cycle), <<resp_idx, draw.org_group>>, draw.org_group,
                 factor_id, combined, proficiency, coverage, 4, draw.has_evidence)

\* The loops over the cycles, the factors and the respondents; draws[c][f]
\* holds the random draws of factor f in the c-th cycle.
generate_responses(factors, draws) ==
    Flatten([c \in 1..Len(GenCycles) |->
        Flatten([f \in 1..Len(factors) |->
            [k \in 1..Len(draws[c][f].rows) |->
                GenResponse(GenCycles[c], factors[f].factor_id, draws[c][f].base,
                            k - 1, draws[c][f].rows[k])]])])

\* action_templates: the (impact, effort) of the templates of each threshold.
ActionTemplates ==
    <<<<1, 4, 2>>, <<1, 3, 1>>,
      <<2, 4, 3>>, <<2, 3, 2>>, <<2, 3, 2>>,
      <<3, 5, 3>>, <<3, 4, 3>>, <<3, 3, 2>>,
      <<4, 5, 4>>, <<4, 5, 5>>, <<4, 4, 3>>>>

\* Every template instantiated for every factor, action_id counting up
\* from 1.
generate_actions(factors) ==
    Flatten([f \in 1..Len(factors) |->
        [k \in 1..Len(ActionTemplates) |->
            Action((f - 1) * Len(ActionTemplates) + k, factors[f].factor_id,
                   ActionTemplates[k][1], ActionTemplates[k][2], ActionTemplates[k][3])]])

---------------------------------------------------------------------------
(* The run: load_data, validate_responses, compute_factor_scores, the      *)
(* sidebar filters, compute_area_scores, compute_overall_score,            *)
(* compute_gap_analysis, compute_participation_stats and the quadrant      *)

\* The tables and arguments of a run.
inputs == <<caller, origin, factors_df, loaded_df, actions_df, columns, cycle_id,
            org_group_filter, controls>>

\* The sidebar as the page first shows it.
DefaultControls ==
    [selected_area |-> "All", show_evidence_only |-> FALSE,
     min_responses |-> 3, max_dispersion |-> 8]

Callers == {"app", "scoring", "trends"}

\* Nothing is computed yet.
NoResults ==
    /\ responses_df = <<>>
    /\ factor_scores = <<>>
    /\ area_scores = <<>>
    /\ overall_score = None
    /\ gaps_df = <<>>
    /\ participation = None
    /\ quadrant = None
    /\ trend_data = None
    /\ rerun_scores = <<>>

\* The data directory is empty: generate_all_data has to run first.
NoData ==
    /\ pc = "nodata"
    /\ caller \in Callers
    /\ origin = "none"
    /\ factors_df = <<>>
    /\ loaded_df = <<>>
    /\ actions_df = <<>>
    /\ columns = {}
    /\ cycle_id = "baseline"
    /\ org_group_filter = None
    /\ controls = DefaultControls
    /\ NoResults

\* load_data has read tables somebody wrote to the data directory.
Loaded(catalogs, tables, actions, colsets, cycles, filters, sidebars) ==
    /\ pc = "loaded"
    /\ caller \in Callers
    /\ origin = "csv"
    /\ factors_df \in catalogs
    /\ columns \in colsets
    /\ \E df \in tables : loaded_df = WithColumns(df, columns)
    /\ actions_df \in actions
    /\ cycle_id \in cycles
    /\ org_group_filter \in filters
    /\ controls \in sidebars
    /\ NoResults

\* generate_all_data: the catalog, the responses and the actions are
\* generated and written, and load_data reads them back.
GenerateAllData ==
    /\ pc = "nodata"
    /\ \E cat \in GenCatalogs :
         \E draws \in [1..Len(GenCycles) -> [1..Len(cat) -> GenFactorDraws]] :
            /\ factors_df' = cat
            /\ loaded_df' = generate_responses(cat, draws)
            /\ actions_df' = generate_actions(cat)
    /\ columns' = OptionalColumns
    /\ origin' = "generated"
    /\ pc' = "loaded"
    /\ UNCHANGED <<caller, responses_df, cycle_id, org_group_filter, controls,
                   factor_scores, area_scores, overall_score, gaps_df, participation,
                   quadrant, trend_data, rerun_scores>>

\* ValidateResponses dropping the invalid rows from the loaded table too.
ValidateResponses_in_place ==
    /\ pc = "loaded"
    /\ responses_df' = validate_responses(loaded_df, columns, factors_df)
    /\ loaded_df' = responses_df'
    /\ pc' = "validated"
    /\ UNCHANGED <<caller, origin, factors_df, actions_df, columns, cycle_id,
                   org_group_filter, controls, factor_scores, area_scores,
                   overall_score, gaps_df, participation, quadrant, trend_data,
                   rerun_scores>>

\* responses_df = validate_responses(responses_df, factors_df)
ValidateResponses ==
    /\ pc = "loaded"
    /\ responses_df' = validate_responses(loaded_df, columns, factors_df)
    /\ pc' = "validated"
    /\ UNCHANGED <<inputs, factor_scores, area_scores, overall_score, gaps_df,
                   participation, quadrant, trend_data,
                   rerun_scores>>

\* factor_scores = compute_factor_scores(responses_df, factors_df, cycle, filter)
ComputeFactorScores ==
    /\ pc = "validated"
    /\ caller # "trends"
    /\ factor_scores' = compute_factor_scores(responses_df, columns, factors_df,
                                               cycle_id, org_group_filter)
    /\ pc' = "scored"
    /\ UNCHANGED <<inputs, responses_df, area_scores, overall_score, gaps_df,
                   participation, quadrant, trend_data,
                   rerun_scores>>

\* Filtered without the two confidence filters.
Filtered_without_confidence(scores, c) ==
    SelectSeq(scores, LAMBDA r :
        /\ c.selected_area # "All" => r.area = c.selected_area
        /\ c.show_evidence_only => r.evidence_rate[1] > 0)

\* The score rows the sidebar keeps: those of the selected area, with
\* evidence when only these are wanted, with at least min_responses
\* responses and a dispersion of at most max_dispersion (never one of NaN).
Filtered(scores, c) ==
    SelectSeq(scores, LAMBDA r :
        /\ c.selected_area # "All" => r.area = c.selected_area
        /\ c.show_evidence_only => r.evidence_rate[1] > 0
        /\ r.n_responses >= c.min_responses
        /\ r.dispersion # NaN
        /\ r.dispersion <= c.max_dispersion)

\* The dashboard filters factor_scores and stops with a warning when no row
\* is left.
FilterScores ==
    /\ pc = "scored"
    /\ caller = "app"
    /\ factor_scores' = Filtered(factor_scores, controls)
    /\ pc' = IF Len(factor_scores') = 0 THEN "stopped" ELSE "filtered"
    /\ UNCHANGED <<inputs, responses_df, area_scores, overall_score, gaps_df,
                   participation, quadrant, trend_data,
                   rerun_scores>>

\* area_scores = compute_area_scores(factor_scores): on the filtered table
\* in the dashboard, on the whole table as compute_trend_data and
\* create_org_comparison pass it.
ComputeAreaScores ==
    /\ pc = IF caller = "app" THEN "filtered" ELSE "scored"
    /\ area_scores' = compute_area_scores(factor_scores)
    /\ pc' = "aggregated"
    /\ UNCHANGED <<inputs, responses_df, factor_scores, overall_score, gaps_df,
                   participation, quadrant, trend_data,
                   rerun_scores>>

\* overall_score = compute_overall_score(area_scores); on a table without
\* rows round() raises on the NaN mean.
ComputeOverallScore ==
    /\ pc = "aggregated"
    /\ overall_score' = IF Len(area_scores) = 0 THEN overall_score
                        ELSE compute_overall_score(area_scores)
    /\ pc' = IF Len(area_scores) = 0 THEN "error" ELSE "overall"
    /\ UNCHANGED <<inputs, responses_df, factor_scores, area_scores, gaps_df,
                   participation, quadrant, trend_data,
                   rerun_scores>>

\* gaps_df = compute_gap_analysis(factor_scores, actions_df)
ComputeGapAnalysis ==
    /\ pc = "overall"
    /\ gaps_df' = compute_gap_analysis(factor_scores, actions_df)
    /\ pc' = "gaps"
    /\ UNCHANGED <<inputs, responses_df, factor_scores, area_scores, overall_score,
                   participation, quadrant, trend_data,
                   rerun_scores>>

\* ComputeParticipationStats leaving in responses_df only the first
\* response of every respondent.
ComputeParticipationStats_dedup_in_place ==
    /\ pc = "gaps"
    /\ participation' = compute_participation_stats(responses_df, cycle_id)
    /\ responses_df' =
          LET first == {i \in 1..Len(responses_df) :
                          \A j \in 1..(i - 1) :
                              responses_df[j].respondent_id # responses_df[i].respondent_id}
              F[i \in 0..Len(responses_df)] ==
                  IF i = 0 THEN <<>>
                  ELSE IF i \in first THEN Append(F[i - 1], responses_df[i])
                  ELSE F[i - 1]
          IN  F[Len(responses_df)]
    /\ pc' = "participation"
    /\ UNCHANGED <<inputs, factor_scores, area_scores, overall_score,
                   gaps_df, quadrant, trend_data, rerun_scores>>

\* participation = compute_participation_stats(responses_df, selected_cycle)
ComputeParticipationStats ==
    /\ pc = "gaps"
    /\ participation' = compute_participation_stats(responses_df, cycle_id)
    /\ pc' = "participation"
    /\ UNCHANGED <<inputs, responses_df, factor_scores, area_scores, overall_score,
                   gaps_df, quadrant, trend_data, rerun_scores>>

\* quadrant = get_combined_maturity_quadrant(overall_prof, overall_cov)
ShowQuadrant ==
    /\ pc = "participation"
    /\ quadrant' = get_combined_maturity_quadrant(overall_score.overall_proficiency,
                                                   overall_score.overall_coverage)
    /\ pc' = "rendered"
    /\ UNCHANGED <<inputs, responses_df, factor_scores, area_scores, overall_score,
                   gaps_df, participation, trend_data, rerun_scores>>

\* The dashboard runs again on the same tables, cycle and sidebar, as it
\* does on every interaction: compute_factor_scores is invoked a second
\* time.
RerunFactorScores ==
    /\ pc = "rendered"
    /\ rerun_scores' = compute_factor_scores(responses_df, columns, factors_df,
                                              cycle_id, org_group_filter)
    /\ pc' = "rerun"
    /\ UNCHANGED <<inputs, responses_df, factor_scores, area_scores, overall_score,
                   gaps_df, participation, quadrant, trend_data>>

\* TrendsPage without the check of the number of cycles.
TrendsPage_unchecked ==
    /\ pc = "validated"
    /\ caller = "trends"
    /\ pc' = "trends"
    /\ trend_data' = compute_trend_data(responses_df, columns, factors_df)
    /\ UNCHANGED <<inputs, responses_df, factor_scores, area_scores, overall_score,
                   gaps_df, participation, quadrant, rerun_scores>>

\* The Trends page: it stops with a warning unless the validated responses
\* hold at least two cycles, and computes the trend data when they do.
TrendsPage ==
    /\ pc = "validated"
    /\ caller = "trends"
    /\ LET cycles == Unique(Column(responses_df, "cycle_id"))
       IN  IF Len(cycles) < 2
           THEN /\ pc' = "stopped"
                /\ trend_data' = trend_data
           ELSE /\ pc' = "trends"
                /\ trend_data' = compute_trend_data(responses_df, columns, factors_df)
    /\ UNCHANGED <<inputs, responses_df, factor_scores, area_scores, overall_score,
                   gaps_df, participation, quadrant, rerun_scores>>

Next ==
    \/ GenerateAllData
    \/ ValidateResponses
    \/ ComputeFactorScores
    \/ FilterScores
    \/ ComputeAreaScores
    \/ ComputeOverallScore
    \/ ComputeGapAnalysis
    \/ ComputeParticipationStats
    \/ ShowQuadrant
    \/ RerunFactorScores
    \/ TrendsPage

---------------------------------------------------------------------------
(* The tables the runs start from *)

\* An action table of two rows, as a file may hold it.
FewActions == <<Action(1, "PM_01", 2, 4, 2), Action(2, "PM_01", 4, 5, 4)>>

Cycles == {"baseline", "cycle_1"}
Groups == {"Admin", "Finance"}
Filters == {None, "All"} \cup Groups

\* Ratings of one factor in one cycle and group: every level, with and
\* without an evidence link; the factor requires evidence or not.
RatingRows ==
    {Response("baseline", <<0, "Admin">>, "Admin", "PM_01", l, l, MaxLevel, 4, e) :
        l \in MinLevel..MaxLevel, e \in BOOLEAN}

RatingCatalogs ==
    {<<Factor("PM_01", 10, 3, e), Factor("PM_02", 10, 4, FALSE)>> : e \in BOOLEAN}

\* Responses spread over factors, cycles and groups.
SpreadRows ==
    {Response(c, <<0, g>>, g, f, IF g = "Admin" THEN 3 ELSE 4,
              IF g = "Admin" THEN 3 ELSE 4, 4, 4, FALSE) :
        c \in Cycles, g \in Groups, f \in {"PM_01", "EIM_01"}}

SpreadCatalogs ==
    {<<Factor("PM_01", 10, 4, FALSE)>>,
     <<Factor("PM_01", 10, 4, FALSE), Factor("EIM_01", 10, 4, FALSE)>>,
     <<Factor("EIM_01", 10, 4, FALSE), Factor("PM_01", 10, 4, FALSE)>>}

\* The response tables of the worked scenarios: one factor rated 1,2,2,3,5,
\* rated 1,2, and rated 2 by five respondents.
ScenarioLevels == {<<1, 2, 2, 3, 5>>, <<1, 2>>, <<2, 2, 2, 2, 2>>}

ScenarioTables ==
    {[i \in 1..Len(l) |->
        Response("baseline", <<i, "Admin">>, "Admin", "PM_01", l[i], l[i], l[i], 4, FALSE)] :
        l \in ScenarioLevels}

ScenarioCatalogs == {<<Factor("PM_01", 10, 4, FALSE)>>}

Init ==
    \/ NoData
    \/ Loaded(RatingCatalogs, Tables(RatingRows, MaxResponses), {FewActions},
              {OptionalColumns}, {"baseline"}, {None}, {DefaultControls})
    \/ Loaded(SpreadCatalogs, Tables(SpreadRows, MaxResponses), {FewActions},
              {OptionalColumns}, Cycles, Filters, {DefaultControls})
    \/ Loaded(ScenarioCatalogs, ScenarioTables, {FewActions}, {OptionalColumns},
              {"baseline"}, {None}, {DefaultControls})

Spec == Init /\ [][Next]_vars

\* Cells of (level, proficiency_level, coverage_level) as a file may hold
\* them: in range, out of range on either side, and empty.
RawRatings ==
    {<<1, 1, 5>>, <<5, 5, 5>>, <<2, 4, 4>>,
     <<3, NaN, 3>>, <<3, 3, NaN>>,
     <<0, 1, 1>>, <<6, 5, 5>>, <<NaN, 2, 2>>,
     <<2, 0, 2>>, <<2, 6, 2>>, <<2, 2, 0>>, <<2, 2, 6>>}

\* Rows as a file may hold them, one of them of a factor the catalog lacks.
RawRows ==
    {Response("baseline", <<0, "Admin">>, "Admin", "PM_01", t[1], t[2], t[3], 4, FALSE) :
        t \in RawRatings}
    \cup {Response("baseline", <<0, "Admin">>, "Admin", "XX_99", 3, 3, 3, 4, FALSE)}

RawCatalogs == {<<Factor("PM_01", 10, 4, FALSE)>>}

ColumnSets == {c \cup {"confidence"} : c \in SUBSET {"proficiency_level", "coverage_level"}}

InitValidate ==
    \/ NoData
    \/ Loaded(RawCatalogs, Tables(RawRows, MaxResponses), {FewActions}, ColumnSets,
              {"baseline"}, {None}, {DefaultControls})

SpecValidate == InitValidate /\ [][Next]_vars

\* The weights a catalog may hold, in tenths: the generator's 0.8, 1.0 and
\* 1.2, and 0, the case compute_area_scores guards against.
Weights == {0, 8, 10, 12}

WeightCatalogs ==
    {<<Factor("PM_01", w1, 4, FALSE), Factor("PM_02", w2, 4, FALSE),
       Factor("EIM_01", w3, 4, FALSE)>> : w1 \in Weights, w2 \in Weights, w3 \in {0, 10}}

WeightRows ==
    {Response("baseline", <<0, "Admin">>, "Admin", f, l, l, l, 4, FALSE) :
        f \in {"PM_01", "PM_02"}, l \in {1, 3, 5}}

InitArea ==
    \/ NoData
    \/ Loaded(WeightCatalogs, Tables(WeightRows, MaxResponses), {FewActions},
              {OptionalColumns}, {"baseline"}, {None}, {DefaultControls})

SpecArea == InitArea /\ [][Next]_vars

\* The sidebar opened as far as it goes, and narrowed to one area with
\* evidence.
OpenControls ==
    [selected_area |-> "All", show_evidence_only |-> FALSE,
     min_responses |-> 1, max_dispersion |-> 12]

NarrowControls ==
    [selected_area |-> "Project Management", show_evidence_only |-> TRUE,
     min_responses |-> 1, max_dispersion |-> 8]

Sidebars == {DefaultControls, OpenControls, NarrowControls}

\* Catalogs of two areas; a target_level of 2 is one that ratings reach.
GapCatalogs ==
    {<<Factor("PM_01", w, t, TRUE), Factor("EIM_01", 10, 4, FALSE)>> :
        w \in {10, 12}, t \in {2, 4}}

\* Responses of two respondents and two groups, with proficiency above,
\* below and equal to coverage, one of them of another cycle.
GapResponseRows ==
    {Response("baseline", <<0, "Admin">>, "Admin", "PM_01", 2, 4, 2, 4, TRUE),
     Response("baseline", <<1, "Admin">>, "Admin", "PM_01", 5, 5, 5, 4, FALSE),
     Response("baseline", <<0, "Finance">>, "Finance", "PM_01", 2, 2, 4, 4, FALSE),
     Response("baseline", <<1, "Admin">>, "Admin", "PM_01", 1, 1, 1, 4, TRUE),
     Response("baseline", <<0, "Admin">>, "Admin", "EIM_01", 3, 3, 3, 4, FALSE),
     Response("cycle_1", <<0, "Admin">>, "Admin", "PM_01", 5, 5, 5, 4, TRUE)}

\* Action tables: thresholds below and above the ratings, an effort of 0,
\* an action of a factor the catalog lacks, and actions listed in
\* increasing priority.
ActionTables ==
    {FewActions,
     <<Action(1, "PM_01", 1, 3, 0), Action(2, "EIM_01", 3, 5, 5),
       Action(3, "XX_99", 5, 5, 1), Action(4, "PM_01", 2, 4, 2)>>,
     <<Action(1, "PM_01", 4, 3, 2), Action(2, "PM_01", 3, 4, 1),
       Action(3, "PM_01", 2, 4, 1)>>}

InitGap ==
    \/ NoData
    \/ Loaded(GapCatalogs, Tables(GapResponseRows, MaxResponses), ActionTables,
              {OptionalColumns}, {"baseline"}, {None}, Sidebars)
    \/ Loaded(ScenarioCatalogs, ScenarioTables, {FewActions}, {OptionalColumns},
              {"baseline"}, {None}, {DefaultControls})

SpecGap == InitGap /\ [][Next]_vars

\* The factor ids of a catalog longer than the trend rows of a cycle.
LongCatalogIds ==
    <<"PM_01", "PM_02", "EIM_01", "INV_01", "INV_02", "INV_03", "INV_04", "INV_05",
      "INV_06", "INV_07", "INV_08">>

\* A catalog of two factors in two areas, and one of eleven in three.
TrendCatalogs ==
    {<<Factor("PM_01", 10, 4, FALSE), Factor("EIM_01", 10, 4, FALSE)>>,
     [k \in 1..Len(LongCatalogIds) |-> Factor(LongCatalogIds[k], 10, 4, FALSE)]}

\* Responses of three cycles; the last factor of the long catalog has the
\* highest rating.
TrendResponseRows ==
    {Response("baseline", <<0, "Admin">>, "Admin", "PM_01", 2, 2, 3, 4, FALSE),
     Response("baseline", <<0, "Admin">>, "Admin", "INV_08", 5, 5, 5, 4, FALSE),
     Response("cycle_1", <<0, "Admin">>, "Admin", "PM_01", 4, 4, 4, 4, FALSE),
     Response("cycle_1", <<1, "Admin">>, "Admin", "EIM_01", 3, 3, 5, 4, FALSE),
     Response("cycle_2", <<0, "Admin">>, "Admin", "PM_01", 3, 3, 3, 4, FALSE)}

InitTrend ==
    \/ NoData
    \/ Loaded(TrendCatalogs, Tables(TrendResponseRows, MaxResponses), {FewActions},
              {OptionalColumns}, {"baseline"}, {None}, {DefaultControls})

SpecTrend == InitTrend /\ [][Next]_vars

---------------------------------------------------------------------------
(* Properties of compute_factor_scores, under Spec *)

Scored == pc = "scored" \/ (caller = "scoring" /\ pc = "aggregated")

\* The number of validated responses of a factor that the request selects:
\* those of the requested cycle and, unless the filter is None or 'All', of
\* the requested group.
NSelected(factor_id) ==
    Cardinality({i \in 1..Len(responses_df) :
        /\ responses_df[i].factor_id = factor_id
        /\ responses_df[i].cycle_id = cycle_id
        /\ org_group_filter \in {None, "All"}
              \/ responses_df[i].org_group = org_group_filter})

\* C1: in every row compute_factor_scores returns on validated responses,
\* for any cycle and filter, 1.0 <= index_adjusted <= index_raw <= 5.0.
IndexBounds ==
    Scored =>
        \A i \in 1..Len(factor_scores) :
            /\ 4 <= factor_scores[i].index_adjusted
            /\ factor_scores[i].index_adjusted <= factor_scores[i].index_raw
            /\ factor_scores[i].index_raw <= 20

\* A factor with responses whose penalty would take the index below 1.0.
IndexBoundsWitness ==
    /\ Scored
    /\ \E i \in 1..Len(factor_scores) :
         /\ factor_scores[i].n_responses > 0
         /\ factor_scores[i].index_raw - factor_scores[i].quality_penalty < 4
         /\ factor_scores[i].index_adjusted = 4

\* C2: a factor of the catalog without a response matching the requested
\* cycle (and group) gets a row with n_responses = 0, index_adjusted = 1.0
\* and a NaN dispersion.
ZeroResponseFactorsScored ==
    Scored =>
        \A k \in 1..Len(factors_df) :
            NSelected(factors_df[k].factor_id) = 0 =>
                \E i \in 1..Len(factor_scores) :
                    /\ factor_scores[i].factor_id = factors_df[k].factor_id
                    /\ factor_scores[i].n_responses = 0
                    /\ factor_scores[i].index_adjusted = 4
                    /\ factor_scores[i].dispersion = NaN

\* A factor that has responses, none of them matching the request.
ZeroResponseFactorsScoredWitness ==
    /\ Scored
    /\ \E k \in 1..Len(factors_df) :
         /\ NSelected(factors_df[k].factor_id) = 0
         /\ \E j \in 1..Len(responses_df) :
              responses_df[j].factor_id = factors_df[k].factor_id

B2I(b) == IF b THEN 1 ELSE 0

\* C4: for a factor with at least one selected response, quality_penalty is
\* 0.5 * ([n_responses < 3] + [dispersion > 1.5] + [evidence required and
\* evidence_rate < 0.5]), hence one of 0.0, 0.5, 1.0, 1.5.
PenaltyFormula ==
    Scored =>
        \A i \in 1..Len(factor_scores) :
            LET r == factor_scores[i]
            IN  r.n_responses >= 1 =>
                    /\ r.quality_penalty =
                          2 * ( B2I(r.n_responses < 3)
                              + B2I(r.dispersion > 6)
                              + B2I(r.evidence_required
                                    /\ 2 * r.evidence_rate[1] < r.evidence_rate[2]) )
                    /\ r.quality_penalty \in {0, 2, 4, 6}

\* A factor that requires evidence, at the boundaries n_responses = 3 and
\* dispersion = 1.5, without a penalty.
PenaltyFormulaWitness ==
    /\ Scored
    /\ \E i \in 1..Len(factor_scores) :
         /\ factor_scores[i].n_responses = 3
         /\ factor_scores[i].dispersion = 6
         /\ factor_scores[i].evidence_required
         /\ factor_scores[i].quality_penalty = 0

\* Row a carries no better a signal than row b: no more responses, no
\* smaller a dispersion (an undefined dispersion is not smaller than the
\* least one, 0.0), and, both factors requiring evidence or both not, no
\* higher an evidence rate when they require it.
NoBetterSignals(a, b) ==
    /\ a.n_responses <= b.n_responses
    /\ IF a.dispersion # NaN /\ b.dispersion # NaN
       THEN a.dispersion >= b.dispersion
       ELSE b.dispersion \in {NaN, 0}
    /\ a.evidence_required = b.evidence_required
    /\ a.evidence_required => LeqQ(a.evidence_rate, b.evidence_rate)

\* C5: of two rows, a zero-response row included, the one with no better a
\* signal never has the smaller quality_penalty.
PenaltyMonotonic ==
    Scored =>
        \A i, j \in 1..Len(factor_scores) :
            NoBetterSignals(factor_scores[i], factor_scores[j]) =>
                factor_scores[i].quality_penalty >= factor_scores[j].quality_penalty

\* C6: compute_factor_scores returns one row per factor of the catalog, in
\* catalog order, whatever the responses, the cycle and the filter.
OneRowPerFactor ==
    Scored =>
        /\ Len(factor_scores) = Len(factors_df)
        /\ \A i \in 1..Len(factors_df) :
              factor_scores[i].factor_id = factors_df[i].factor_id

\* A catalog of two factors, not in alphabetical order, scored for a cycle
\* or group that none of the responses has.
OneRowPerFactorWitness ==
    /\ Scored
    /\ Len(factors_df) = 2
    /\ factors_df[1].factor_id = "EIM_01"
    /\ responses_df # <<>>
    /\ \A i \in 1..Len(factor_scores) : factor_scores[i].n_responses = 0

\* The levels of the validated responses the request selects for a factor.
SelectedLevels(factor_id) ==
    LET selected == SelectSeq(responses_df, LAMBDA r :
                        /\ r.factor_id = factor_id
                        /\ r.cycle_id = cycle_id
                        /\ org_group_filter \in {None, "All"}
                              \/ r.org_group = org_group_filter)
    IN  [i \in 1..Len(selected) |-> selected[i].level]

\* The k-th smallest of the values of a list: the value with fewer than k
\* values below it and at least k values not above it.
Smallest(levels, k) ==
    CHOOSE v \in MinLevel..MaxLevel :
        /\ Cardinality({i \in 1..Len(levels) : levels[i] < v}) < k
        /\ Cardinality({i \in 1..Len(levels) : levels[i] <= v}) >= k

\* The value at the virtual index (n-1) * q4 / 4 among the sorted values,
\* in quarters, interpolated linearly between its neighbours.
Quantile(levels, q4) ==
    LET pos  == (Len(levels) - 1) * q4
        lo   == (pos \div 4) + 1
        frac == pos % 4
    IN  IF frac = 0 THEN 4 * Smallest(levels, lo)
        ELSE (4 - frac) * Smallest(levels, lo) + frac * Smallest(levels, lo + 1)

\* C19: for a factor with at least one selected response, median_level is
\* the median (the 50th percentile) of the selected levels, dispersion the
\* 75th minus the 25th percentile, index_raw = median_level and
\* index_adjusted = max(1.0, median_level - quality_penalty); levels
\* 1,2,2,3,5 without required evidence give 2.0, 1.0, no penalty and 2.0,
\* and levels 1,2 give 1.5, a penalty of 0.5 and 1.0.
MedianAndDispersion ==
    Scored =>
        \A i \in 1..Len(factor_scores) :
            LET r      == factor_scores[i]
                levels == SelectedLevels(r.factor_id)
                sorted == [k \in 1..Len(levels) |-> Smallest(levels, k)]
            IN  Len(levels) >= 1 =>
                    /\ r.median_level = Quantile(levels, 2)
                    /\ r.dispersion = Quantile(levels, 3) - Quantile(levels, 1)
                    /\ r.index_raw = r.median_level
                    /\ r.index_adjusted =
                          (IF r.median_level - r.quality_penalty >= 4
                           THEN r.median_level - r.quality_penalty ELSE 4)
                    /\ sorted = <<1, 2, 2, 3, 5>> /\ ~r.evidence_required =>
                          /\ r.median_level = 8
                          /\ r.dispersion = 4
                          /\ r.quality_penalty = 0
                          /\ r.index_adjusted = 8
                    /\ sorted = <<1, 2>> /\ ~r.evidence_required =>
                          /\ r.median_level = 6
                          /\ r.quality_penalty = 2
                          /\ r.index_adjusted = 4

\* The factor rated 1,2,2,3,5 is scored 2.0 with a dispersion of 1.0.
MedianAndDispersionWitness ==
    /\ Scored
    /\ \E i \in 1..Len(factor_scores) :
          /\ Len(SelectedLevels(factor_scores[i].factor_id)) = 5
          /\ \E k \in 1..5 : SelectedLevels(factor_scores[i].factor_id)[k] = 5
          /\ factor_scores[i].median_level = 8
          /\ factor_scores[i].dispersion = 4
          /\ factor_scores[i].index_adjusted = 8

\* The validated responses the request selects for a factor.
SelectedOnly(factor_id) ==
    SelectSeq(responses_df, LAMBDA r :
        /\ r.factor_id = factor_id
        /\ r.cycle_id = cycle_id
        /\ org_group_filter \in {None, "All"} \/ r.org_group = org_group_filter)

\* C25: n_responses is the number of responses of the factor, of the
\* requested cycle and, under a filter other than None and 'All', of the
\* requested group; the row is the one the selected responses alone give.
OnlySelectedResponsesCount ==
    Scored =>
        \A i \in 1..Len(factor_scores) :
            /\ factor_scores[i].n_responses = NSelected(factor_scores[i].factor_id)
            /\ factor_scores[i] =
                  compute_factor_scores(SelectedOnly(factor_scores[i].factor_id), columns,
                                        factors_df, cycle_id, org_group_filter)[i]

\* Under a group filter a factor is scored on its one response of the
\* group and cycle, next to a differently rated response of another group
\* and a response of another cycle.
OnlySelectedResponsesCountWitness ==
    /\ Scored
    /\ org_group_filter \notin {None, "All"}
    /\ \E i \in 1..Len(factor_scores) :
          /\ factor_scores[i].n_responses = 1
          /\ \E j, k \in 1..Len(responses_df) :
                /\ responses_df[j].factor_id = factor_scores[i].factor_id
                /\ responses_df[j].cycle_id = cycle_id
                /\ responses_df[j].org_group # org_group_filter
                /\ 4 * responses_df[j].level # factor_scores[i].median_level
                /\ responses_df[k].factor_id = factor_scores[i].factor_id
                /\ responses_df[k].cycle_id # cycle_id

---------------------------------------------------------------------------
(* Properties of validate_responses and generate_responses, under          *)
(* SpecValidate                                                            *)

Validated == pc \in {"validated", "scored", "aggregated"}

\* A row is valid: its factor is in the catalog, its level is in 1..5, and
\* the proficiency_level and coverage_level it carries, if any, are in 1..5.
RowValid(r) ==
    /\ \E k \in 1..Len(factors_df) : factors_df[k].factor_id = r.factor_id
    /\ r.level \in MinLevel..MaxLevel
    /\ r.proficiency_level # NaN => r.proficiency_level \in MinLevel..MaxLevel
    /\ r.coverage_level # NaN => r.coverage_level \in MinLevel..MaxLevel

\* C7: validate_responses returns exactly the valid rows of its input: no
\* invalid row is kept and no valid row, one without a proficiency or
\* coverage value included, is dropped.
ValidationKeepsExactlyValidRows ==
    Validated => responses_df = SelectSeq(loaded_df, RowValid)

\* C8, as stated: every response that validate_responses accepted and that
\* has both dimensions satisfies level = min(proficiency_level,
\* coverage_level).
AcceptedLevelIsMinimum ==
    Validated =>
        \A i \in 1..Len(responses_df) :
            (responses_df[i].proficiency_level # NaN /\ responses_df[i].coverage_level # NaN)
                => responses_df[i].level = Min2(responses_df[i].proficiency_level,
                                                responses_df[i].coverage_level)

\* C8, amended: every response generate_responses produced satisfies
\* level = min(proficiency_level, coverage_level), and validate_responses
\* passes all of them on to the scorer.
GeneratedLevelIsMinimum ==
    origin = "generated" =>
        /\ \A i \in 1..Len(loaded_df) :
              /\ loaded_df[i].proficiency_level \in MinLevel..MaxLevel
              /\ loaded_df[i].coverage_level \in MinLevel..MaxLevel
              /\ loaded_df[i].level = Min2(loaded_df[i].proficiency_level,
                                            loaded_df[i].coverage_level)
        /\ Validated => responses_df = loaded_df

\* Generated responses that reached the scorer, the two dimensions of one
\* of them differing either way.
GeneratedLevelIsMinimumWitness ==
    /\ origin = "generated"
    /\ Scored
    /\ \E i, j \in 1..Len(responses_df) :
         /\ responses_df[i].proficiency_level < responses_df[i].coverage_level
         /\ responses_df[j].proficiency_level > responses_df[j].coverage_level

---------------------------------------------------------------------------
(* Properties of compute_area_scores, under SpecArea *)

RECURSIVE SumOver(_, _)
SumOver(f, S) ==
    IF S = {} THEN 0
    ELSE LET x == CHOOSE x \in S : TRUE IN f[x] + SumOver(f, S \ {x})

\* The rows of factor_scores that belong to an area.
Members(area) == {i \in 1..Len(factor_scores) : factor_scores[i].area = area}

TotalWeight(area) ==
    SumOver([i \in 1..Len(factor_scores) |-> factor_scores[i].weight], Members(area))

WeightedIndexSum(area) ==
    SumOver([i \in 1..Len(factor_scores) |->
                factor_scores[i].index_adjusted * factor_scores[i].weight], Members(area))

ScoredAreas == {factor_scores[i].area : i \in 1..Len(factor_scores)}

\* C9: for each area of the factor scores there is one area row, and its
\* area_index is sum(index_adjusted * weight) / sum(weight) over the area's
\* factors, and 1.0 when the total weight is zero.
AreaIndexIsWeightedMean ==
    pc = "aggregated" =>
        /\ {area_scores[k].area : k \in 1..Len(area_scores)} = ScoredAreas
        /\ Len(area_scores) = Cardinality(ScoredAreas)
        /\ \A k \in 1..Len(area_scores) :
              LET a == area_scores[k].area
              IN  /\ area_scores[k].area_index[2] > 0
                  /\ IF TotalWeight(a) = 0
                     THEN EqQ(area_scores[k].area_index, <<1, 1>>)
                     ELSE EqQ(area_scores[k].area_index,
                              <<WeightedIndexSum(a), 4 * TotalWeight(a)>>)

\* An area of total weight zero beside an area whose two factors differ in
\* weight and in index.
AreaIndexIsWeightedMeanWitness ==
    /\ pc = "aggregated"
    /\ \E a \in ScoredAreas : TotalWeight(a) = 0
    /\ \E i, j \in 1..Len(factor_scores) :
         /\ factor_scores[i].area = factor_scores[j].area
         /\ factor_scores[i].weight > factor_scores[j].weight
         /\ factor_scores[j].weight > 0
         /\ factor_scores[i].index_adjusted # factor_scores[j].index_adjusted

\* area_index lies between the least and the greatest index_adjusted of the
\* area's factors.
WithinMemberRange(row) ==
    /\ \E i \in Members(row.area) :
         LeqQ(<<factor_scores[i].index_adjusted, 4>>, row.area_index)
    /\ \E i \in Members(row.area) :
         LeqQ(row.area_index, <<factor_scores[i].index_adjusted, 4>>)

---------------------------------------------------------------------------
(* Properties of the levels and of compute_overall_score, under SpecArea *)

Aggregated == pc \in {"aggregated", "overall", "gaps", "participation", "rendered"}

OverallKnown == pc \in {"overall", "gaps", "participation", "rendered"}

\* level is an integer of 1..5 and no further than 0.5 from the index.
NearestLevel(level, index) ==
    /\ level \in 1..5
    /\ 2 * (level * index[2] - index[1]) <= index[2]
    /\ 2 * (index[1] - level * index[2]) <= index[2]

\* C11: every area_level is an integer of 1..5 within 0.5 of its area_index,
\* and overall_level is an integer of 1..5 within 0.5 of overall_index.
LevelsAreNearestIntegers ==
    /\ Aggregated =>
          \A k \in 1..Len(area_scores) :
              NearestLevel(area_scores[k].area_level, area_scores[k].area_index)
    /\ OverallKnown =>
          NearestLevel(overall_score.overall_level, overall_score.overall_index)

\* An overall score is computed from an area whose index lies half-way
\* between two levels, and the overall index is not an integer either.
LevelsAreNearestIntegersWitness ==
    /\ OverallKnown
    /\ \E k \in 1..Len(area_scores) :
          (2 * area_scores[k].area_index[1]) % (2 * area_scores[k].area_index[2])
              = area_scores[k].area_index[2]
    /\ overall_score.overall_index[1] % overall_score.overall_index[2] # 0

\* C12: overall_index is the plain mean of the area_index values, whatever
\* the areas' factor counts and weights, and lies between the smallest and
\* the largest of them.
OverallIsUnweightedMean ==
    OverallKnown =>
        LET indices == Column(area_scores, "area_index")
        IN  /\ EqQ(<<overall_score.overall_index[1] * Len(indices),
                     overall_score.overall_index[2]>>, SumQ(indices))
            /\ \E k \in 1..Len(indices) : LeqQ(indices[k], overall_score.overall_index)
            /\ \E k \in 1..Len(indices) : LeqQ(overall_score.overall_index, indices[k])

\* The overall score of two areas of different index, one of two factors
\* and one of one.
OverallIsUnweightedMeanWitness ==
    /\ OverallKnown
    /\ \E j, k \in 1..Len(area_scores) :
          /\ area_scores[j].n_factors = 2
          /\ area_scores[k].n_factors = 1
          /\ LtQ(area_scores[k].area_index, area_scores[j].area_index)
          /\ LtQ(area_scores[k].area_index, overall_score.overall_index)
          /\ LtQ(overall_score.overall_index, area_scores[j].area_index)

---------------------------------------------------------------------------
(* Properties of the quadrant, the gap analysis and the participation      *)
(* statistics, under SpecGap                                               *)

Rendered == pc = "rendered"

\* The axis value q is high: defined and at least 3.
High(q) == q[2] # 0 /\ q[1] >= 3 * q[2]

GapsKnown == pc \in {"gaps", "participation", "rendered"}

\* The score row and the action row a gap row was built from.
FactorOf(row) ==
    factor_scores[CHOOSE i \in 1..Len(factor_scores) :
                      factor_scores[i].factor_id = row.factor_id]

ActionOf(row) ==
    actions_df[CHOOSE k \in 1..Len(actions_df) : actions_df[k].action_id = row.action_id]

\* The current level of a score row, in quarters: its median, 1.0 for none.
Current(f) == IF f.median_level = NaN THEN 4 ELSE f.median_level

\* The action a applies to the score row f.
Applies(a, f) ==
    /\ a.factor_id = f.factor_id
    /\ 4 * a.if_level_leq >= Current(f)

\* C14: every row compute_gap_analysis returns has
\* gap_levels = target_level - current_level > 0, and a factor at or above
\* its target has no row, whatever actions apply to it.
GapsArePositive ==
    GapsKnown =>
        /\ \A j \in 1..Len(gaps_df) :
              /\ gaps_df[j].gap_levels > 0
              /\ gaps_df[j].gap_levels = 4 * gaps_df[j].target_level - gaps_df[j].current_level
        /\ \A i \in 1..Len(factor_scores) :
              Current(factor_scores[i]) >= 4 * factor_scores[i].target_level =>
                  \A j \in 1..Len(gaps_df) :
                      gaps_df[j].factor_id # factor_scores[i].factor_id

\* A factor at its target with an action that applies to it has no row,
\* while a factor below its target has one.
GapsArePositiveWitness ==
    /\ GapsKnown
    /\ Len(gaps_df) > 0
    /\ \E i \in 1..Len(factor_scores) :
          /\ Current(factor_scores[i]) >= 4 * factor_scores[i].target_level
          /\ \E k \in 1..Len(actions_df) : Applies(actions_df[k], factor_scores[i])

\* The number of times x occurs in the list s.
Count(s, x) == Cardinality({i \in 1..Len(s) : s[i] = x})

\* C15: the returned rows are in non-increasing priority_score and are
\* the rows the loops built, each as many times as it was built.
GapsSortedByPriority ==
    GapsKnown =>
        /\ \A j \in 1..(Len(gaps_df) - 1) :
              LeqQ(gaps_df[j + 1].priority_score, gaps_df[j].priority_score)
        /\ LET built == GapRows(factor_scores, actions_df)
           IN  /\ Len(built) = Len(gaps_df)
               /\ \A j \in 1..Len(built) : Count(gaps_df, built[j]) = Count(built, built[j])

\* Rows of different priority were built in another order than the one
\* returned.
GapsSortedByPriorityWitness ==
    /\ GapsKnown
    /\ gaps_df # GapRows(factor_scores, actions_df)
    /\ \E j \in 1..(Len(gaps_df) - 1) :
          LtQ(gaps_df[j + 1].priority_score, gaps_df[j].priority_score)

\* C16 as stated: every row compute_gap_analysis returns belongs to a
\* factor with n_responses > 0.
GapRowsHaveResponses ==
    GapsKnown =>
        \A j \in 1..Len(gaps_df) : FactorOf(gaps_df[j]).n_responses > 0

\* C16: in the dashboard, whose confidence filters drop the rows without
\* responses before the gap analysis, every gap row belongs to a factor
\* with n_responses > 0.
DashboardGapRowsHaveResponses ==
    GapsKnown /\ caller = "app" =>
        \A j \in 1..Len(gaps_df) : FactorOf(gaps_df[j]).n_responses > 0

\* The dashboard shows gap rows although a factor without responses is
\* below its target and has an action that applies.
DashboardGapRowsHaveResponsesWitness ==
    /\ GapsKnown
    /\ caller = "app"
    /\ Len(gaps_df) > 0
    /\ LET scores == compute_factor_scores(responses_df, columns, factors_df,
                                           cycle_id, org_group_filter)
       IN  \E i \in 1..Len(scores) :
              /\ scores[i].n_responses = 0
              /\ FactorGaps(scores[i], actions_df) # <<>>

\* C17: the returned rows are, one each, the pairs of a score row with
\* target_level > current_level and an action of the same factor_id with
\* if_level_leq >= current_level, the current level being the median, or
\* 1.0 for a median of NaN.
GapsAreApplicablePairs ==
    GapsKnown =>
        LET pairs == {<<i, k>> \in (1..Len(factor_scores)) \X (1..Len(actions_df)) :
                        /\ 4 * factor_scores[i].target_level > Current(factor_scores[i])
                        /\ Applies(actions_df[k], factor_scores[i])}
        IN  /\ Len(gaps_df) = Cardinality(pairs)
            /\ \A pair \in pairs :
                  \E j \in 1..Len(gaps_df) :
                      /\ gaps_df[j].factor_id = factor_scores[pair[1]].factor_id
                      /\ gaps_df[j].action_id = actions_df[pair[2]].action_id
                      /\ gaps_df[j].current_level = Current(factor_scores[pair[1]])

\* A factor without a median has a row at the current level 1.0, and an
\* action of a factor is left out because its threshold lies below the
\* factor's current level.
GapsAreApplicablePairsWitness ==
    /\ GapsKnown
    /\ \E j \in 1..Len(gaps_df) : FactorOf(gaps_df[j]).median_level = NaN
    /\ \E i \in 1..Len(factor_scores), k \in 1..Len(actions_df) :
          /\ 4 * factor_scores[i].target_level > Current(factor_scores[i])
          /\ actions_df[k].factor_id = factor_scores[i].factor_id
          /\ 4 * actions_df[k].if_level_leq < Current(factor_scores[i])

\* C18: priority_score is impact * gap_levels * weight / max(effort, 1)
\* times min(1, n_responses/5) * max(0, 1 - dispersion/2) * evidence_rate
\* for a factor with responses, and times 0.1 for one without.
PriorityFormula ==
    GapsKnown =>
        \A j \in 1..Len(gaps_df) :
            LET f    == FactorOf(gaps_df[j])
                a    == ActionOf(gaps_df[j])
                base == a.impact * gaps_df[j].gap_levels * f.weight
                div  == 4 * 10 * (IF a.effort >= 1 THEN a.effort ELSE 1)
            IN  IF f.n_responses > 0
                THEN EqQ(gaps_df[j].priority_score,
                         <<base * (IF f.n_responses < 5 THEN f.n_responses ELSE 5)
                                * (IF f.dispersion < 8 THEN 8 - f.dispersion ELSE 0)
                                * f.evidence_rate[1],
                           div * 5 * 8 * f.evidence_rate[2]>>)
                ELSE EqQ(gaps_df[j].priority_score, <<base, div * 10>>)

\* The dashboard's row for target_level 4, current_level 2.0, impact 4,
\* effort 2, weight 1.0 and a quality factor of 1.0: gap_levels 2.0,
\* priority_score 4.0.
PriorityFormulaWitness ==
    /\ GapsKnown
    /\ caller = "app"
    /\ \E j \in 1..Len(gaps_df) :
          /\ gaps_df[j].target_level = 4
          /\ gaps_df[j].current_level = 8
          /\ gaps_df[j].impact = 4
          /\ gaps_df[j].effort = 2
          /\ FactorOf(gaps_df[j]).weight = 10
          /\ EqQ(QualityFactor(FactorOf(gaps_df[j])), <<1, 1>>)
          /\ gaps_df[j].gap_levels = 8
          /\ EqQ(gaps_df[j].priority_score, <<4, 1>>)

ParticipationKnown == pc \in {"participation", "rendered"}

\* The rows of the validated table that belong to the requested cycle.
InCycle == {i \in 1..Len(responses_df) : responses_df[i].cycle_id = cycle_id}

\* C20: the participation statistics count the responses of the requested
\* cycle only: total_respondents is the number of distinct respondent_id
\* among them, and by_group has, for each org_group that occurs among them,
\* its number of distinct respondent_id and its number of response rows.
ParticipationCounts ==
    ParticipationKnown =>
        /\ participation.total_respondents =
              Cardinality({responses_df[i].respondent_id : i \in InCycle})
        /\ DOMAIN participation.by_group = {responses_df[i].org_group : i \in InCycle}
        /\ \A g \in DOMAIN participation.by_group :
              LET of_group == {i \in InCycle : responses_df[i].org_group = g}
              IN  /\ participation.by_group[g].unique_respondents =
                        Cardinality({responses_df[i].respondent_id : i \in of_group})
                  /\ participation.by_group[g].total_responses = Cardinality(of_group)

\* A respondent with two responses in the cycle is counted once, and a
\* response of another cycle not at all.
ParticipationCountsWitness ==
    /\ ParticipationKnown
    /\ \E i \in 1..Len(responses_df) : responses_df[i].cycle_id # cycle_id
    /\ participation.total_respondents = 1
    /\ \E g \in DOMAIN participation.by_group :
          /\ participation.by_group[g].unique_respondents = 1
          /\ participation.by_group[g].total_responses = 2

---------------------------------------------------------------------------
(* Properties of compute_trend_data and of the Trends page, under          *)
(* SpecTrend                                                               *)

TrendsKnown == pc = "trends"

\* The distinct cycles of the validated responses, in order of appearance.
TrendCycles == Unique(Column(responses_df, "cycle_id"))

\* The rows of a trend table that belong to a cycle, in order.
OfCycle(rows, cycle) == SelectSeq(rows, LAMBDA r : r.cycle_id = cycle)

\* C21: for C cycles, F factors and A areas the trend data has C rows in
\* overall, one per cycle, C*A rows in by_area, one per cycle and area, and
\* C*min(F,10) rows in by_factor, those of a cycle being the first 10
\* factors of the catalog in catalog order.
TrendRowCounts ==
    TrendsKnown =>
        LET C     == Len(TrendCycles)
            F     == Len(factors_df)
            areas == {factors_df[i].area : i \in 1..F}
            shown == IF F < 10 THEN F ELSE 10
        IN  /\ Len(trend_data.overall) = C
            /\ Len(trend_data.by_area) = C * Cardinality(areas)
            /\ Len(trend_data.by_factor) = C * shown
            /\ \A c \in 1..C :
                  /\ Len(OfCycle(trend_data.overall, TrendCycles[c])) = 1
                  /\ \A a \in areas :
                        Cardinality({k \in 1..Len(trend_data.by_area) :
                            /\ trend_data.by_area[k].cycle_id = TrendCycles[c]
                            /\ trend_data.by_area[k].area = a}) = 1
                  /\ LET rows == OfCycle(trend_data.by_factor, TrendCycles[c])
                     IN  /\ Len(rows) = shown
                         /\ \A k \in 1..shown : rows[k].factor_id = factors_df[k].factor_id

\* A catalog of eleven factors whose last factor scores highest in a cycle
\* is cut to its first ten.
TrendRowCountsWitness ==
    /\ TrendsKnown
    /\ Len(factors_df) = 11
    /\ Len(TrendCycles) >= 2
    /\ \E c \in 1..Len(TrendCycles) :
          LET scores == compute_factor_scores(responses_df, columns, factors_df,
                                              TrendCycles[c], None)
          IN  \A k \in 1..10 : scores[k].index_adjusted < scores[11].index_adjusted
    /\ \A k \in 1..Len(trend_data.by_factor) :
          trend_data.by_factor[k].factor_id # factors_df[11].factor_id

\* The validated tables that hold the same responses of a cycle as
\* responses_df, in the same order, and any responses of other cycles.
SameCycleTables(cycle) ==
    {df \in Tables(TrendResponseRows, MaxResponses) :
        /\ \A i \in 1..Len(df) : \E f \in 1..Len(factors_df) :
              df[i].factor_id = factors_df[f].factor_id
        /\ OfCycle(df, cycle) = OfCycle(responses_df, cycle)}

\* C22: the trend rows of a cycle are what compute_factor_scores,
\* compute_area_scores and compute_overall_score return when called for
\* that cycle, and are the same on every table that differs from
\* responses_df in the responses of other cycles only.
TrendCyclesIndependent ==
    TrendsKnown =>
        \A c \in 1..Len(TrendCycles) :
            LET cycle   == TrendCycles[c]
                scores  == compute_factor_scores(responses_df, columns, factors_df,
                                                 cycle, None)
                areas   == compute_area_scores(scores)
                overall == compute_overall_score(areas)
                shown   == OfCycle(trend_data.by_factor, cycle)
                by_area == OfCycle(trend_data.by_area, cycle)
            IN  /\ OfCycle(trend_data.overall, cycle)[1].overall_index = overall.overall_index
                /\ OfCycle(trend_data.overall, cycle)[1].overall_level = overall.overall_level
                /\ Len(by_area) = Len(areas)
                /\ \A k \in 1..Len(areas) :
                      /\ by_area[k].area = areas[k].area
                      /\ by_area[k].area_index = areas[k].area_index
                      /\ by_area[k].area_level = areas[k].area_level
                /\ \A k \in 1..Len(shown) :
                      /\ shown[k].factor_id = scores[k].factor_id
                      /\ shown[k].index_adjusted = scores[k].index_adjusted
                /\ \A df \in SameCycleTables(cycle) :
                      LET other == compute_trend_data(df, columns, factors_df)
                      IN  /\ OfCycle(other.overall, cycle) = OfCycle(trend_data.overall, cycle)
                          /\ OfCycle(other.by_area, cycle) = by_area
                          /\ OfCycle(other.by_factor, cycle) = shown

\* The trend data of two cycles of different overall index, while some
\* other table has the same responses in one of the cycles and other
\* responses elsewhere.
TrendCyclesIndependentWitness ==
    /\ TrendsKnown
    /\ Len(TrendCycles) = 2
    /\ trend_data.overall[1].overall_index # trend_data.overall[2].overall_index
    /\ \E df \in SameCycleTables(TrendCycles[1]) :
          /\ df # responses_df
          /\ compute_trend_data(df, columns, factors_df).overall # trend_data.overall

\* C23: compute_trend_data is called only from the validated responses of
\* at least two distinct cycles; with fewer the Trends page stops.
TrendsNeedTwoCycles ==
    /\ TrendsKnown =>
          /\ caller = "trends"
          /\ Cardinality({responses_df[i].cycle_id : i \in 1..Len(responses_df)}) >= 2
    /\ caller = "trends" /\ pc = "stopped" =>
          Cardinality({responses_df[i].cycle_id : i \in 1..Len(responses_df)}) < 2

\* The Trends page has stopped on responses of a single cycle.
TrendsNeedTwoCyclesWitness ==
    /\ caller = "trends"
    /\ pc = "stopped"
    /\ Len(responses_df) >= 2
    /\ Cardinality({responses_df[i].cycle_id : i \in 1..Len(responses_df)}) = 1

---------------------------------------------------------------------------
(* Determinism and frame of the core operations *)

Rerun == pc = "rerun"

InputsNeverChange ==
    [][ /\ pc # "nodata" =>
              /\ loaded_df' = loaded_df
              /\ factors_df' = factors_df
              /\ actions_df' = actions_df
        /\ pc \notin {"nodata", "loaded"} => responses_df' = responses_df ]_vars

\* Every operation has run, validate_responses having returned fewer rows
\* than the loaded table holds.
InputsNeverChangeWitness ==
    /\ Rerun
    /\ Len(responses_df) > 0
    /\ Len(responses_df) < Len(loaded_df)

---------------------------------------------------------------------------
(* Further properties of compute_gap_analysis, under SpecGap *)

\* The gap rows built from the score row f and the action a.
RowsOf(f, a) ==
    {j \in 1..Len(gaps_df) :
        gaps_df[j].factor_id = f.factor_id /\ gaps_df[j].action_id = a.action_id}

\* C27: a factor whose median_level (1.0 for none) is below its target has
\* a row for every action of its factor_id whose if_level_leq is at least
\* that median, however far the threshold lies above the median or the
\* target; gap_levels and current_level come from the median, whatever the
\* quality penalty made of index_adjusted.
GapMatchingBoundedBelowOnly ==
    GapsKnown =>
        /\ \A i \in 1..Len(factor_scores), k \in 1..Len(actions_df) :
              LET f == factor_scores[i]
                  a == actions_df[k]
                  median == IF f.median_level = NaN THEN 4 ELSE f.median_level
              IN  /\ 4 * f.target_level > median
                  /\ a.factor_id = f.factor_id
                  /\ 4 * a.if_level_leq >= median
                  => /\ RowsOf(f, a) # {}
                     /\ \A j \in RowsOf(f, a) :
                           /\ gaps_df[j].current_level = median
                           /\ gaps_df[j].gap_levels = 4 * f.target_level - median
        /\ \A j \in 1..Len(gaps_df) :
              LET f == FactorOf(gaps_df[j])
              IN  f.median_level # NaN =>
                     /\ gaps_df[j].current_level = f.median_level
                     /\ 4 * ActionOf(gaps_df[j]).if_level_leq >= f.median_level

\* A row for an action whose threshold is the factor's target, of a factor
\* whose penalty put index_adjusted below its median; and an action left
\* out although its threshold is not below the factor's index_adjusted.
GapMatchingBoundedBelowOnlyWitness ==
    /\ GapsKnown
    /\ \E j \in 1..Len(gaps_df) :
          /\ ActionOf(gaps_df[j]).if_level_leq >= gaps_df[j].target_level
          /\ FactorOf(gaps_df[j]).quality_penalty > 0
          /\ FactorOf(gaps_df[j]).index_adjusted < FactorOf(gaps_df[j]).median_level
    /\ \E i \in 1..Len(factor_scores), k \in 1..Len(actions_df) :
          /\ factor_scores[i].median_level # NaN
          /\ 4 * factor_scores[i].target_level > factor_scores[i].median_level
          /\ actions_df[k].factor_id = factor_scores[i].factor_id
          /\ 4 * actions_df[k].if_level_leq < factor_scores[i].median_level
          /\ 4 * actions_df[k].if_level_leq >= factor_scores[i].index_adjusted
          /\ RowsOf(factor_scores[i], actions_df[k]) = {}

\* The gap row comes from valid catalog data.
ValidCatalogData(row) ==
    /\ ActionOf(row).impact >= 1
    /\ ActionOf(row).effort >= 1
    /\ FactorOf(row).weight > 0

IsZero(q) == q[1] = 0 /\ q[2] # 0

\* C30: for an impact and an effort of at least 1 and a positive weight
\* the priority_score is not negative; for a factor with responses it is 0
\* exactly when the dispersion is at least 2.0 or the evidence_rate is 0,
\* and the rows of a factor with responses and an evidence_rate of 0 have
\* no row of a higher score behind them.
PriorityZeroCases ==
    GapsKnown =>
        \A j \in 1..Len(gaps_df) :
            LET f == FactorOf(gaps_df[j])
            IN  ValidCatalogData(gaps_df[j]) =>
                   /\ LeqQ(<<0, 1>>, gaps_df[j].priority_score)
                   /\ f.n_responses > 0 =>
                         /\ IsZero(gaps_df[j].priority_score)
                               <=> (f.dispersion >= 8 \/ IsZero(f.evidence_rate))
                         /\ IsZero(f.evidence_rate) =>
                               \A k \in 1..Len(gaps_df) :
                                   /\ LeqQ(gaps_df[j].priority_score, gaps_df[k].priority_score)
                                   /\ k > j => IsZero(gaps_df[k].priority_score)

\* A row of score 0 of an evidence-required factor with a response, without
\* a link and with a gap of 2 levels, behind a row of a positive score.
PriorityZeroCasesWitness ==
    /\ GapsKnown
    /\ \E j, k \in 1..Len(gaps_df) :
          /\ k < j
          /\ ValidCatalogData(gaps_df[j])
          /\ ValidCatalogData(gaps_df[k])
          /\ FactorOf(gaps_df[j]).n_responses > 0
          /\ FactorOf(gaps_df[j]).evidence_required
          /\ FactorOf(gaps_df[j]).dispersion < 8
          /\ IsZero(FactorOf(gaps_df[j]).evidence_rate)
          /\ gaps_df[j].gap_levels >= 8
          /\ IsZero(gaps_df[j].priority_score)
          /\ LtQ(<<0, 1>>, gaps_df[k].priority_score)

---------------------------------------------------------------------------
(* Further properties of compute_area_scores, under SpecArea *)

\* The factors of an area that have no response, and those that have one.
Unanswered(area) == {i \in Members(area) : factor_scores[i].n_responses = 0}

Answered(area) == Members(area) \ Unanswered(area)

\* C28: a factor without responses counts in n_factors and enters
\* area_index as an index of 1.0 with its weight, but avg_proficiency and
\* avg_coverage are the means over the factors with responses alone; for an
\* area without any response area_index is 1.0 and both averages are NaN.
UnansweredFactorsInAreas ==
    pc = "aggregated" =>
        \A k \in 1..Len(area_scores) :
            LET row == area_scores[k]
                a   == row.area
                w   == [i \in 1..Len(factor_scores) |-> factor_scores[i].weight]
                iw  == [i \in 1..Len(factor_scores) |->
                           factor_scores[i].index_adjusted * factor_scores[i].weight]
                pm  == [i \in 1..Len(factor_scores) |-> factor_scores[i].proficiency_median]
                cm  == [i \in 1..Len(factor_scores) |-> factor_scores[i].coverage_median]
            IN  /\ row.n_factors = Cardinality(Answered(a)) + Cardinality(Unanswered(a))
                /\ TotalWeight(a) > 0 =>
                      EqQ(row.area_index,
                          <<SumOver(iw, Answered(a)) + 4 * SumOver(w, Unanswered(a)),
                            4 * (SumOver(w, Answered(a)) + SumOver(w, Unanswered(a)))>>)
                /\ IF Answered(a) = {}
                   THEN /\ EqQ(row.area_index, <<1, 1>>)
                        /\ IsNaNQ(row.avg_proficiency)
                        /\ IsNaNQ(row.avg_coverage)
                   ELSE /\ ~IsNaNQ(row.avg_proficiency)
                        /\ ~IsNaNQ(row.avg_coverage)
                        /\ EqQ(row.avg_proficiency,
                               <<SumOver(pm, Answered(a)), 4 * Cardinality(Answered(a))>>)
                        /\ EqQ(row.avg_coverage,
                               <<SumOver(cm, Answered(a)), 4 * Cardinality(Answered(a))>>)

\* An area of a factor rated 5 and a factor without responses, both of a
\* positive weight: area_index lies below 5 while avg_proficiency is 5;
\* beside it an area of positive weight without any response.
UnansweredFactorsInAreasWitness ==
    /\ pc = "aggregated"
    /\ \E k \in 1..Len(area_scores) :
          /\ area_scores[k].n_factors = 2
          /\ \E i \in Unanswered(area_scores[k].area) : factor_scores[i].weight > 0
          /\ \E i \in Answered(area_scores[k].area) :
                factor_scores[i].weight > 0 /\ factor_scores[i].proficiency_median = 20
          /\ LtQ(area_scores[k].area_index, <<5, 1>>)
          /\ EqQ(area_scores[k].avg_proficiency, <<5, 1>>)
    /\ \E k \in 1..Len(area_scores) :
          /\ Answered(area_scores[k].area) = {}
          /\ TotalWeight(area_scores[k].area) > 0
          /\ EqQ(area_scores[k].area_index, <<1, 1>>)
          /\ IsNaNQ(area_scores[k].avg_coverage)

---------------------------------------------------------------------------
(* The dual dimensions in compute_factor_scores, under SpecValidate *)

\* The validated responses of the requested cycle and group for a factor.
SelectedRows(factor_id) ==
    {i \in 1..Len(responses_df) :
        /\ responses_df[i].factor_id = factor_id
        /\ responses_df[i].cycle_id = cycle_id
        /\ org_group_filter \in {None, "All"}
              \/ responses_df[i].org_group = org_group_filter}

\* The combined rating of a response is the lower of its two dimensions.
LevelIsMinimum(r) ==
    /\ r.proficiency_level # NaN
    /\ r.coverage_level # NaN
    /\ r.level = Min2(r.proficiency_level, r.coverage_level)

\* C29: a factor all of whose selected responses rate level as the minimum
\* of proficiency_level and coverage_level has a median_level no higher
\* than proficiency_median and coverage_median; a dimension without a
\* column has median_level for its median.
MedianBelowDimensions ==
    Scored =>
        \A i \in 1..Len(factor_scores) :
            LET f == factor_scores[i]
            IN  f.n_responses > 0 =>
                   /\ (\A j \in SelectedRows(f.factor_id) : LevelIsMinimum(responses_df[j]))
                         => /\ f.median_level <= f.proficiency_median
                            /\ f.median_level <= f.coverage_median
                   /\ "proficiency_level" \notin columns =>
                         f.proficiency_median = f.median_level
                   /\ "coverage_level" \notin columns =>
                         f.coverage_median = f.median_level

\* Two responses rated at their minimum give a median_level below the
\* coverage_median.
MedianBelowDimensionsWitness ==
    /\ Scored
    /\ \E i \in 1..Len(factor_scores) :
          /\ factor_scores[i].n_responses = 2
          /\ \A j \in SelectedRows(factor_scores[i].factor_id) :
                LevelIsMinimum(responses_df[j])
          /\ factor_scores[i].median_level = 12
          /\ factor_scores[i].proficiency_median = 12
          /\ factor_scores[i].coverage_median = 20

====
